---- MODULE Spec2Model ----
(***************************************************************************)
(* State-machine model of the manim-ai api-gateway services:               *)
(*   - ManimService   (services/manim.service.ts)  : render executor       *)
(*   - UserModel      (models/user.model.ts)       : quota gate            *)
(*   - StorageService (minio storage service)      : artifact store        *)
(* Three specifications share the module: Spec (render executor),          *)
(* SpecQuota (quota gate) and SpecStore (artifact store).  In each, the    *)
(* variables of the other components stay at their initial value.          *)
(***************************************************************************)
EXTENDS Integers, Sequences, FiniteSets, TLC

\* ------------------------------------------------------------------ bounds
\* Number of generateVideo invocations in flight.
NJobs == 2
\* Largest value of the millisecond clock read by new Date().getTime().
MaxClock == 1
\* Largest videosGenerated the account store holds.
MaxGenerated == 101

Jobs == 1..NJobs
Times == 0..MaxClock
NoJob == 0

VARIABLES
  \* ---- render executor (ManimService)
  clock,      \* last value read from the ms clock by new Date().getTime()
  pc,         \* per job: position inside generateVideo
  ts,         \* per job: const timestamp
  vid,        \* per job: const videoId
  fs,         \* tmp directory: timestamp of the file name -> job whose code it holds, NoJob = absent
  proc,       \* per job: the child process spawned by runManim
  timer,      \* per job: the setTimeout armed by runManim
  promise,    \* per job: state of the promise runManim returned
  unhandled,  \* per job: rejection of that promise, which no handler consumes
  unlinkRes,  \* per job: outcome of fs.unlink(pythonFilePath)
  unlinkCalls,\* per job: number of fs.unlink calls issued
  response,   \* per job: the VideoGenerationResponse generateVideo returned
  \* ---- quota gate (UserModel)
  sub,        \* user.subscription of the one user document
  perm,       \* outcome of the last canGenerateVideos call
  \* ---- artifact store (StorageService)
  env,        \* process.env: which MINIO_* variables are set
  svc,        \* StorageService instance: "none" | "constructed" | "threw"
  initPc,     \* position inside initializeBucket
  bucket,     \* object store: [exists, policy]
  objects,    \* object store: the objects the bucket holds, each with its key
  lastUpload, \* last uploadVideo call: what it saw and returned
  lastCall,   \* last call of a lookup or delete operation: what it saw and returned
  \* ---- job orchestrator
  jobPc,      \* per job: stage of the job sequence
  completed,  \* number of jobs that reached the usage increment
  \* ---- script normalizer (GeminiService) and entry-point scan
  raw,        \* the raw text handed to parseGeminiResponse
  parsed,     \* what parseGeminiResponse returned for it
  className,  \* what extractClassName returned, and for which content
  \* ---- authentication (AuthService)
  users,      \* users collection: username -> document
  session     \* last signin call: what it was given and how it ended

renderVars == <<clock, pc, ts, vid, fs, proc, timer, promise,
                unhandled, unlinkRes, unlinkCalls, response>>
quotaVars == <<sub, perm>>
storeVars == <<env, svc, initPc, bucket, objects, lastUpload, lastCall>>
jobVars == <<jobPc, completed>>
scriptVars == <<raw, parsed, className>>
authVars == <<users, session>>
restVars == <<jobVars, scriptVars, authVars>>
vars == <<renderVars, quotaVars, storeVars, restVars>>

\* =================================================================
\* Render executor: ManimService
\* =================================================================

\* Error messages of runManim's rejections, under their classified names:
\*   "RenderFailed"      = Error('Manim process failed with code')
\*   "RenderStartFailed" = Error("Failed to start manim process")
\*   "RenderTimeout"     = Error('Video generation timeout')
Rejections == {"RenderFailed", "RenderStartFailed", "RenderTimeout"}

\* path.join(this.tempDir, `animation_${timestamp}.py`): the name is built
\* from the timestamp alone; the videoId is not part of it.
pythonFilePath(timestamp, videoId) == timestamp

\* uuidv4(): a value no other invocation gets.
uuidv4(j) == j

\* The child is alive: spawned and not yet exited ("killed" = a signal has
\* been sent by kill() and the exit has not been observed yet).
Running(j) == proc[j] \in {"running", "killed"}

\* resolve()/reject() of the promise built in runManim: only the first call
\* settles it.  A rejection has no handler (generateVideo never awaits or
\* chains outputPath), so it surfaces as an unhandled rejection.
Settle(j, outcome) ==
  IF promise[j] = "pending"
  THEN /\ promise' = [promise EXCEPT ![j] = outcome]
       /\ unhandled' = [unhandled EXCEPT ![j] =
                          IF outcome \in Rejections THEN outcome ELSE @]
  ELSE UNCHANGED <<promise, unhandled>>

InitRender ==
  /\ clock = 0
  /\ pc = [j \in Jobs |-> "idle"]
  /\ ts = [j \in Jobs |-> 0]
  /\ vid = [j \in Jobs |-> 0]
  /\ fs = [t \in Times |-> NoJob]
  /\ proc = [j \in Jobs |-> "none"]
  /\ timer = [j \in Jobs |-> "none"]
  /\ promise = [j \in Jobs |-> "none"]
  /\ unhandled = [j \in Jobs |-> "none"]
  /\ unlinkRes = [j \in Jobs |-> "none"]
  /\ unlinkCalls = [j \in Jobs |-> 0]
  /\ response = [j \in Jobs |-> "none"]

\* generateVideo, lines 42-49: take videoId and timestamp, issue writeFile.
\* uuidv4() is fresh for every invocation (the invocation's own number stands
\* for it); new Date().getTime() reads the millisecond clock, which has not
\* gone back since the previous read and may not have advanced either.
Start(j) ==
  /\ pc[j] = "idle"
  /\ \E now \in Times :
       /\ now >= clock
       /\ clock' = now
       /\ ts' = [ts EXCEPT ![j] = now]
  /\ vid' = [vid EXCEPT ![j] = uuidv4(j)]
  /\ pc' = [pc EXCEPT ![j] = "write"]
  /\ UNCHANGED <<quotaVars, storeVars, restVars>>
  /\ UNCHANGED <<fs, proc, timer, promise, unhandled, unlinkRes,
                 unlinkCalls, response>>

\* fs.writeFile completes.  On failure the await throws into the catch block,
\* which returns status 'failed' (lines 61-68).
WriteFile(j) ==
  /\ pc[j] = "write"
  /\ \E ok \in BOOLEAN :
       IF ok
       THEN /\ fs' = [fs EXCEPT ![pythonFilePath(ts[j], vid[j])] = j]
            /\ pc' = [pc EXCEPT ![j] = "wrote"]
            /\ UNCHANGED response
       ELSE /\ pc' = [pc EXCEPT ![j] = "done"]
            /\ response' = [response EXCEPT ![j] = "failed:write"]
            /\ UNCHANGED fs
  /\ UNCHANGED <<quotaVars, storeVars, restVars>>
  /\ UNCHANGED <<clock, ts, vid, proc, timer, promise, unhandled,
                 unlinkRes, unlinkCalls>>

\* generateVideo lines 50-54 with runManim lines 81-124: the continuation
\* after writeFile calls runManim, which spawns the child and arms the
\* 3000 ms timer, and, WITHOUT awaiting the returned promise, issues
\* fs.unlink.  spawn either starts the child or fails (ENOENT,...), in which
\* case the 'error' event is queued with process.nextTick.
RunManim(j) ==
  /\ pc[j] = "wrote"
  /\ \E started \in BOOLEAN :
       proc' = [proc EXCEPT ![j] = IF started THEN "running" ELSE "spawnError"]
  /\ timer' = [timer EXCEPT ![j] = "armed"]
  /\ promise' = [promise EXCEPT ![j] = "pending"]
  /\ unlinkCalls' = [unlinkCalls EXCEPT ![j] = @ + 1]
  /\ pc' = [pc EXCEPT ![j] = "unlink"]
  /\ UNCHANGED <<quotaVars, storeVars, restVars>>
  /\ UNCHANGED <<clock, ts, vid, fs, unhandled, unlinkRes, response>>

\* Mutant of Removed: unlink reports success and leaves the file in place.
RemovedNothing(f, p) == f

\* The tmp directory after a successful unlink of path p.
Removed(f, p) == [f EXCEPT ![p] = NoJob]

\* fs.unlink, line 54, completes in the thread pool: it removes the file at
\* the path, whoever wrote it last; it fails with ENOENT when the path is
\* absent, and may fail for reasons of the file system (EPERM, EBUSY, EIO).
Unlink(j) ==
  /\ pc[j] = "unlink"
  /\ LET p == pythonFilePath(ts[j], vid[j]) IN
       IF fs[p] = NoJob
       THEN /\ unlinkRes' = [unlinkRes EXCEPT ![j] = "ENOENT"]
            /\ UNCHANGED fs
       ELSE \E ok \in BOOLEAN :
              IF ok
              THEN /\ fs' = Removed(fs, p)
                   /\ unlinkRes' = [unlinkRes EXCEPT ![j] = "ok"]
              ELSE /\ unlinkRes' = [unlinkRes EXCEPT ![j] = "EPERM"]
                   /\ UNCHANGED fs
  /\ pc' = [pc EXCEPT ![j] = "unlinked"]
  /\ UNCHANGED <<quotaVars, storeVars, restVars>>
  /\ UNCHANGED <<clock, ts, vid, proc, timer, promise, unhandled,
                 unlinkCalls, response>>

\* generateVideo lines 56-68: the continuation after unlink.  A fulfilled
\* unlink returns status 'completed'; a rejected one lands in the catch
\* block, which returns status 'failed' with the unlink error's message.
Return(j) ==
  /\ pc[j] = "unlinked"
  /\ response' = [response EXCEPT ![j] =
                    IF unlinkRes[j] = "ok" THEN "completed" ELSE "failed:unlink"]
  /\ pc' = [pc EXCEPT ![j] = "done"]
  /\ UNCHANGED <<quotaVars, storeVars, restVars>>
  /\ UNCHANGED <<clock, ts, vid, fs, proc, timer, promise, unhandled,
                 unlinkRes, unlinkCalls>>

\* manimProcess.on('error'), lines 115-117: spawn failed.  The 'close' event
\* that follows a spawn error carries a negative code; its handler rejects
\* the promise this handler has already rejected, which changes nothing.
ProcError(j) ==
  /\ proc[j] = "spawnError"
  /\ proc' = [proc EXCEPT ![j] = "closed"]
  /\ Settle(j, "RenderStartFailed")
  /\ UNCHANGED <<quotaVars, storeVars, restVars>>
  /\ UNCHANGED <<clock, pc, ts, vid, fs, timer, unlinkRes,
                 unlinkCalls, response>>

\* manimProcess.on('close'), lines 106-113.  The child exits with a code: 0,
\* or not 0 (null when a signal ended it).
ProcClose(j) ==
  /\ Running(j)
  /\ \E code \in {0, 1} :
       /\ (proc[j] = "killed") => code # 0
       /\ proc' = [proc EXCEPT ![j] = "closed"]
       /\ Settle(j, IF code = 0 THEN "resolved" ELSE "RenderFailed")
  /\ UNCHANGED <<quotaVars, storeVars, restVars>>
  /\ UNCHANGED <<clock, pc, ts, vid, fs, timer, unlinkRes,
                 unlinkCalls, response>>

\* What manimProcess.kill() does to the child: a live child is sent SIGTERM
\* and keeps running until its exit is observed; otherwise nothing is sent.
Kill(p) == IF p = "running" THEN "killed" ELSE p

\* The setTimeout callback, lines 119-123.  Nothing clears the timer, so it
\* fires whether or not the child has exited.  A queued spawn error
\* (process.nextTick) always runs before a timer.
Timeout(j) ==
  /\ timer[j] = "armed"
  /\ proc[j] # "spawnError"
  /\ timer' = [timer EXCEPT ![j] = "fired"]
  /\ proc' = [proc EXCEPT ![j] = Kill(@)]
  /\ Settle(j, "RenderTimeout")
  /\ UNCHANGED <<quotaVars, storeVars, restVars>>
  /\ UNCHANGED <<clock, pc, ts, vid, fs, unlinkRes, unlinkCalls,
                 response>>

NextRender ==
  \/ \E j \in Jobs : Start(j)
  \/ \E j \in Jobs : WriteFile(j)
  \/ \E j \in Jobs : RunManim(j)
  \/ \E j \in Jobs : Unlink(j)
  \/ \E j \in Jobs : Return(j)
  \/ \E j \in Jobs : ProcError(j)
  \/ \E j \in Jobs : ProcClose(j)
  \/ \E j \in Jobs : Timeout(j)

\* =================================================================
\* Quota gate: UserModel
\* =================================================================

\* enum SubscriptionPlan, lines 6-10.
Plans == {"basic", "intermediate", "advanced"}

\* PLAN_LIMITS, lines 49-65.
PLAN_LIMITS(plan) ==
  CASE plan = "basic" ->
         [maxVideosPerMonth |-> 5, maxComplexity |-> "basic"]
    [] plan = "intermediate" ->
         [maxVideosPerMonth |-> 20, maxComplexity |-> "intermediate"]
    [] plan = "advanced" ->
         [maxVideosPerMonth |-> 100, maxComplexity |-> "advanced"]

\* const complexityOrder, line 183.
complexityOrder == <<"basic", "intermediate", "advanced">>

\* Array.prototype.indexOf: the 0-based position of x, -1 when absent.
indexOf(arr, x) ==
  IF \E i \in 1..Len(arr) : arr[i] = x
  THEN (CHOOSE i \in 1..Len(arr) : arr[i] = x) - 1
  ELSE -1

\* The complexity strings a caller may pass; "extreme" stands for any string
\* that is not in complexityOrder.
Complexities == {"basic", "intermediate", "advanced", "extreme"}

\* Mutant of limitReached: the limit counts as reached when it is met.
limitReachedWhenMet(videosThisMonth, maxVideos) == videosThisMonth >= maxVideos

\* The condition of line 174.
limitReached(videosThisMonth, maxVideos) == videosThisMonth > maxVideos

\* Mutant of complexityExceeds: a request at the plan's own tier is refused.
complexityExceedsOrEqual(requestedComplexity, userMaxComplexity) ==
  requestedComplexity >= userMaxComplexity

\* The condition of line 187.
complexityExceeds(requestedComplexity, userMaxComplexity) ==
  requestedComplexity > userMaxComplexity

\* UserModel.canGenerateVideos, lines 154-198, as a function of what findOne
\* returned (found, user.subscription) and of the requested complexity.
\* kind "throw" is a thrown Error, kind "return" a returned object; a field
\* the returned object does not carry is absent from the record.
canGenerateVideos(found, subscription, complexity) ==
  IF ~found THEN [kind |-> "throw", error |-> "User not found!"]
  ELSE IF ~subscription.isActive
  THEN [kind |-> "throw", error |-> "Your subscription is inactive!"]
  ELSE
    LET videosThisMonth == subscription.videosGenerated
        maxVideos == subscription.maxVideosPerMonth
        planLimits == PLAN_LIMITS(subscription.plan)
        userMaxComplexity == indexOf(complexityOrder, planLimits.maxComplexity)
        requestedComplexity == indexOf(complexityOrder, complexity)
    IN IF limitReached(videosThisMonth, maxVideos)
       THEN [kind |-> "return", canGenerate |-> FALSE,
             reason |-> <<"Your montly limit has reached!">>,
             videosLeft |-> 0]
       ELSE IF complexityExceeds(requestedComplexity, userMaxComplexity)
       THEN [kind |-> "return", canGenerate |-> FALSE,
             reason |-> <<"Complexity ", complexity, " not allowed for ",
                          subscription.plan>>]
       ELSE [kind |-> "return", canGenerate |-> TRUE,
             videosLeft |-> maxVideos - videosThisMonth]

InitQuotaIdle ==
  /\ sub = [plan |-> "basic", isActive |-> TRUE, videosGenerated |-> 0,
            maxVideosPerMonth |-> 5]
  /\ perm = [kind |-> "none"]

\* The user document as the account store may hold it: create (lines 96-102)
\* and updateSubscription (lines 219-222) keep maxVideosPerMonth at the
\* plan's limit; isActive and videosGenerated are whatever the store holds.
InitQuota ==
  /\ sub \in {[plan |-> p, isActive |-> a, videosGenerated |-> g,
                maxVideosPerMonth |-> PLAN_LIMITS(p).maxVideosPerMonth] :
                p \in Plans, a \in BOOLEAN, g \in 0..MaxGenerated}
  /\ perm = [kind |-> "none"]

\* A call of canGenerateVideos(userId, complexity): perm keeps what the call
\* read and what it returned or threw.
CanGenerateVideos(found, complexity) ==
  /\ perm' = [call |-> [found |-> found, subscription |-> sub,
                        complexity |-> complexity],
              kind |-> "called",
              result |-> canGenerateVideos(found, sub, complexity)]
  /\ UNCHANGED sub
  /\ UNCHANGED <<renderVars, storeVars, restVars>>

\* UserModel.updateSubscription, lines 210-233.
UpdateSubscription(newPlan) ==
  /\ sub' = [sub EXCEPT !.plan = newPlan,
                        !.maxVideosPerMonth = PLAN_LIMITS(newPlan).maxVideosPerMonth,
                        !.isActive = TRUE]
  /\ UNCHANGED perm
  /\ UNCHANGED <<renderVars, storeVars, restVars>>

NextQuota ==
  \/ \E found \in BOOLEAN, c \in Complexities : CanGenerateVideos(found, c)
  \/ \E newPlan \in Plans : UpdateSubscription(newPlan)

\* =================================================================
\* Artifact store: StorageService
\* =================================================================

\* Account ids and video ids that callers pass: strings, as sequences of
\* characters.  The ids of this program are ObjectId hex strings and uuids,
\* which hold no "/".
Accounts == {<<"a">>, <<"a", "b">>}
VideoIds == {<<"b">>, <<"b", "b">>}

\* Mutant of objectName: the template without the "/" between the two ids.
objectNameNoSeparator(userId, videoId) ==
  <<"videos/">> \o userId \o videoId \o <<".mp4">>

\* `videos/${userId}/${videoId}.mp4`, lines 85, 134, 165, 182 and 210: the
\* same template in every operation; "videos/" and ".mp4" are one character
\* each here.
objectName(userId, videoId) ==
  <<"videos/">> \o userId \o <<"/">> \o videoId \o <<".mp4">>

\* The object the bucket holds under a key after an upload for a pair of ids.
StoredObject(userId, videoId) ==
  [key |-> objectName(userId, videoId), userId |-> userId, videoId |-> videoId]

\* A set of objects holds the one uploaded for a pair of ids.
Holds(objs, userId, videoId) ==
  \E o \in objs : o.userId = userId /\ o.videoId = videoId

\* The objects of a set that were uploaded for another pair of ids.
Others(objs, userId, videoId) ==
  {o \in objs : ~(o.userId = userId /\ o.videoId = videoId)}

\* statObject / getObject: the objects the bucket holds under a key.
AtKey(k) == {o \in objects : o.key = k}

InitStoreIdle ==
  /\ env = [MINIO_ENDPOIN |-> FALSE, MINIO_ENDPOINT |-> FALSE, keys |-> FALSE]
  /\ svc = "none"
  /\ initPc = "none"
  /\ bucket = [exists |-> FALSE, policy |-> FALSE]
  /\ objects = {}
  /\ lastUpload = [kind |-> "none"]
  /\ lastCall = [op |-> "none"]

\* Before the first StorageService is constructed: the environment may or
\* may not set MINIO_ENDPOIN, MINIO_ENDPOINT and the two keys, and the
\* object store may already hold the bucket, with or without the policy.
InitStore ==
  /\ env \in [MINIO_ENDPOIN : BOOLEAN, MINIO_ENDPOINT : BOOLEAN, keys : BOOLEAN]
  /\ svc = "none"
  /\ initPc = "none"
  /\ bucket \in {b \in [exists : BOOLEAN, policy : BOOLEAN] :
                    b.policy => b.exists}
  /\ objects = {}
  /\ lastUpload = [kind |-> "none"]
  /\ lastCall = [op |-> "none"]

\* The guard of the constructor, lines 24-30: it tests MINIO_ENDPOIN, while
\* the client is given MINIO_ENDPOINT (line 33), which new Minio.Client
\* rejects when it is undefined.
constructorThrows(e) ==
  \/ ~e.MINIO_ENDPOIN \/ ~e.keys
  \/ ~e.MINIO_ENDPOINT

\* new StorageService(), lines 23-42: after the client is built,
\* initializeBucket() is called and its promise dropped; the constructor
\* returns while the bucketExists request is in flight.  A service is built
\* at process start, and again when the process restarts.
Construct ==
  /\ initPc \in {"none", "done", "failed"}
  /\ svc # "threw"
  /\ IF constructorThrows(env)
     THEN svc' = "threw" /\ UNCHANGED initPc
     ELSE svc' = "constructed" /\ initPc' = "bucketExists"
  /\ UNCHANGED <<env, bucket, objects, lastUpload, lastCall>>
  /\ UNCHANGED <<renderVars, quotaVars, restVars>>

\* initializeBucket line 46: bucketExists answers, or fails (line 72-75).
InitBucketExists ==
  /\ initPc = "bucketExists"
  /\ \E ok \in BOOLEAN :
       initPc' = IF ~ok THEN "failed"
                 ELSE IF bucket.exists THEN "done" ELSE "makeBucket"
  /\ UNCHANGED <<env, svc, bucket, objects, lastUpload, lastCall>>
  /\ UNCHANGED <<renderVars, quotaVars, restVars>>

\* initializeBucket line 48: makeBucket.
InitMakeBucket ==
  /\ initPc = "makeBucket"
  /\ \E ok \in BOOLEAN :
       IF ok /\ ~bucket.exists
       THEN bucket' = [bucket EXCEPT !.exists = TRUE] /\ initPc' = "setPolicy"
       ELSE UNCHANGED bucket /\ initPc' = "failed"
  /\ UNCHANGED <<env, svc, objects, lastUpload, lastCall>>
  /\ UNCHANGED <<renderVars, quotaVars, restVars>>

\* initializeBucket lines 51-68: setBucketPolicy with the read policy on
\* arn:aws:s3:::<bucket>/videos/*.
InitSetPolicy ==
  /\ initPc = "setPolicy"
  /\ \E ok \in BOOLEAN :
       IF ok
       THEN bucket' = [bucket EXCEPT !.policy = TRUE] /\ initPc' = "done"
       ELSE UNCHANGED bucket /\ initPc' = "failed"
  /\ UNCHANGED <<env, svc, objects, lastUpload, lastCall>>
  /\ UNCHANGED <<renderVars, quotaVars, restVars>>

\* The outcomes of minioClient.presignedGetObject: it returns a promise;
\* the promise is fulfilled with a signed URL for the key, computed without
\* looking at the object, or rejected (the region lookup for the bucket
\* failed, the expiry is invalid).  "throws" is a failure raised before a
\* promise is returned.
SignOutcomes == {"url", "rejects", "throws"}

\* getVideoUrl, lines 159-178, given the outcome of presignedGetObject.  The
\* promise is returned without await, so the try block (lines 164-173) has
\* ended when the promise settles: a rejection is the rejection of
\* getVideoUrl's own promise, and only a synchronous throw reaches the catch
\* block, which returns "".
getVideoUrl(videoId, userId, sign) ==
  CASE sign = "url" -> [kind |-> "return", url |-> objectName(userId, videoId)]
    [] sign = "throws" -> [kind |-> "return", url |-> <<>>]
    [] sign = "rejects" -> [kind |-> "raise"]

\* uploadVideo, lines 78-127.  Nothing in it waits for, or looks at,
\* initializeBucket.  fs.stat may fail; fPutObject fails when the bucket is
\* absent and may fail otherwise, and replaces what the key held; a raise of
\* getVideoUrl, like each other failure, lands in the catch block (lines
\* 117-126).
UploadVideo(userId, videoId) ==
  /\ svc = "constructed"
  /\ \E statOk, putOk \in BOOLEAN, sign \in SignOutcomes :
       LET stored == statOk /\ putOk /\ bucket.exists
           url == getVideoUrl(videoId, userId, sign)
           success == stored /\ url.kind = "return"
           k == objectName(userId, videoId)
       IN /\ objects' = IF stored
                         THEN (objects \ AtKey(k)) \cup {StoredObject(userId, videoId)}
                         ELSE objects
          /\ lastUpload' = [kind |-> "called",
                            attempted |-> statOk,
                            bucketAtPut |-> bucket,
                            initAtPut |-> initPc,
                            success |-> success,
                            objectName |-> IF success THEN k ELSE <<>>]
  /\ UNCHANGED <<env, svc, initPc, bucket, lastCall>>
  /\ UNCHANGED <<renderVars, quotaVars, restVars>>

\* A caller's await of getVideoUrl(videoId, userId).
GetVideoUrl(userId, videoId) ==
  /\ svc = "constructed"
  /\ \E sign \in SignOutcomes :
       lastCall' = [op |-> "getVideoUrl", userId |-> userId, videoId |-> videoId,
                    sign |-> sign,
                    present |-> Holds(objects, userId, videoId),
                    result |-> getVideoUrl(videoId, userId, sign)]
  /\ UNCHANGED <<env, svc, initPc, bucket, objects, lastUpload>>
  /\ UNCHANGED <<renderVars, quotaVars, restVars>>

\* statObject on a key: the object it holds; it rejects when the key (or the
\* bucket) is absent and when the store cannot be reached.
statObject(k, storeOk) ==
  IF storeOk /\ bucket.exists /\ AtKey(k) # {}
  THEN [ok |-> TRUE, object |-> CHOOSE o \in AtKey(k) : TRUE]
  ELSE [ok |-> FALSE]

\* getVideoStream, lines 129-157: statObject, then getObject; a rejection of
\* either returns {success: false, error}.
GetVideoStream(userId, videoId) ==
  /\ svc = "constructed"
  /\ \E storeOk, getOk \in BOOLEAN :
       LET stat == statObject(objectName(userId, videoId), storeOk) IN
       lastCall' = [op |-> "getVideoStream", userId |-> userId,
                    videoId |-> videoId,
                    present |-> Holds(objects, userId, videoId),
                    others |-> Others(objects, userId, videoId) # {},
                    storeOk |-> storeOk /\ getOk /\ bucket.exists,
                    result |-> IF stat.ok /\ getOk
                               THEN [kind |-> "return", success |-> TRUE,
                                     metadata |-> stat.object]
                               ELSE [kind |-> "return", success |-> FALSE]]
  /\ UNCHANGED <<env, svc, initPc, bucket, objects, lastUpload>>
  /\ UNCHANGED <<renderVars, quotaVars, restVars>>

\* getVideoMetadata, lines 180-206.
GetVideoMetadata(userId, videoId) ==
  /\ svc = "constructed"
  /\ \E storeOk \in BOOLEAN :
       LET stat == statObject(objectName(userId, videoId), storeOk) IN
       lastCall' = [op |-> "getVideoMetadata", userId |-> userId,
                    videoId |-> videoId,
                    present |-> Holds(objects, userId, videoId),
                    others |-> Others(objects, userId, videoId) # {},
                    storeOk |-> storeOk /\ bucket.exists,
                    result |-> IF stat.ok
                               THEN [kind |-> "return", success |-> TRUE,
                                     metadata |-> stat.object]
                               ELSE [kind |-> "return", success |-> FALSE]]
  /\ UNCHANGED <<env, svc, initPc, bucket, objects, lastUpload>>
  /\ UNCHANGED <<renderVars, quotaVars, restVars>>

\* deleteVideo, lines 208-222: removeObject on the key; it succeeds whether
\* or not the key held an object, and rejects when the bucket is absent or
\* the store cannot be reached, which returns false.
DeleteVideo(userId, videoId) ==
  /\ svc = "constructed"
  /\ \E storeOk \in BOOLEAN :
       LET done == storeOk /\ bucket.exists
           k == objectName(userId, videoId)
       IN /\ objects' = IF done THEN objects \ AtKey(k) ELSE objects
          /\ lastCall' = [op |-> "deleteVideo", userId |-> userId,
                          videoId |-> videoId,
                          present |-> Holds(objects, userId, videoId),
                          presentAfter |-> Holds(objects', userId, videoId),
                          othersKept |-> Others(objects, userId, videoId)
                                           \subseteq objects',
                          result |-> [kind |-> "return", success |-> done]]
  /\ UNCHANGED <<env, svc, initPc, bucket, lastUpload>>
  /\ UNCHANGED <<renderVars, quotaVars, restVars>>

NextStore ==
  \/ Construct
  \/ InitBucketExists
  \/ InitMakeBucket
  \/ InitSetPolicy
  \/ \E u \in Accounts, v \in VideoIds : UploadVideo(u, v)
  \/ \E u \in Accounts, v \in VideoIds : GetVideoUrl(u, v)
  \/ \E u \in Accounts, v \in VideoIds : GetVideoStream(u, v)
  \/ \E u \in Accounts, v \in VideoIds : GetVideoMetadata(u, v)
  \/ \E u \in Accounts, v \in VideoIds : DeleteVideo(u, v)

\* =================================================================
\* Job orchestrator
\* =================================================================

\* Most jobs that reach the usage increment in one behaviour.
MaxCompleted == 8

\* new ObjectId(hex): the BSON ObjectId of a 24-character hex string.
ObjectId(hex) == [bsontype |-> "ObjectId", value |-> hex]

\* new Object(s) of a string s: a String wrapper object, which BSON does not
\* serialise as an ObjectId.
Object(s) == [bsontype |-> "String", value |-> s]

\* The _id of the one user document (insertOne gives it an ObjectId, lines
\* 105-109), and the userId its callers hold: _id.toString().
userHex == "64b7f0"
userDocId == ObjectId(userHex)

\* Mutant of increaseFilter: the filter every other method of UserModel uses.
increaseFilterById(userId) == [_id |-> ObjectId(userId)]

\* The filter of updateOne in increaseVideoCount, line 202.
increaseFilter(userId) == [_id |-> Object(userId)]

\* increaseVideoCount, lines 200-208: updateOne changes the document its
\* filter matches, and nothing when it matches none (no upsert).
increaseVideoCount(subscription, userId) ==
  IF increaseFilter(userId)._id = userDocId
  THEN [subscription EXCEPT !.videosGenerated = @ + 1]
  ELSE subscription

InitJobIdle ==
  /\ jobPc = [j \in Jobs |-> "idle"]
  /\ completed = 0

\* The user document as create leaves it, lines 96-102.
InitJob ==
  /\ sub \in {[plan |-> p, isActive |-> TRUE, videosGenerated |-> 0,
                maxVideosPerMonth |-> PLAN_LIMITS(p).maxVideosPerMonth] :
                p \in Plans}
  /\ perm = [kind |-> "none"]
  /\ InitJobIdle

\* Stage 1: the quota gate; a denial, or a throw of the gate, ends the job.
JobCheck(j) ==
  /\ jobPc[j] = "idle"
  /\ completed < MaxCompleted
  /\ \E c \in Complexities :
       LET r == canGenerateVideos(TRUE, sub, c)
           allowed == IF r.kind = "return" THEN r.canGenerate ELSE FALSE
       IN jobPc' = [jobPc EXCEPT ![j] = IF allowed THEN "allowed" ELSE "denied"]
  /\ UNCHANGED <<completed, quotaVars>>
  /\ UNCHANGED <<renderVars, storeVars, scriptVars, authVars>>

\* Stages 2 and 3: normalize and render; a render error ends the job.
JobRender(j) ==
  /\ jobPc[j] = "allowed"
  /\ \E ok \in BOOLEAN :
       jobPc' = [jobPc EXCEPT ![j] = IF ok THEN "rendered" ELSE "renderFailed"]
  /\ UNCHANGED <<completed, quotaVars>>
  /\ UNCHANGED <<renderVars, storeVars, scriptVars, authVars>>

\* Stage 4: upload; an upload failure ends the job.
JobUpload(j) ==
  /\ jobPc[j] = "rendered"
  /\ \E ok \in BOOLEAN :
       jobPc' = [jobPc EXCEPT ![j] = IF ok THEN "uploaded" ELSE "uploadFailed"]
  /\ UNCHANGED <<completed, quotaVars>>
  /\ UNCHANGED <<renderVars, storeVars, scriptVars, authVars>>

\* Stages 5 and 6: the usage increment, AuthService.incrementUserVideoCount
\* (part_000 lines 106-108) which calls increaseVideoCount, then success.
JobIncrement(j) ==
  /\ jobPc[j] = "uploaded"
  /\ sub' = increaseVideoCount(sub, userHex)
  /\ completed' = completed + 1
  /\ jobPc' = [jobPc EXCEPT ![j] = "success"]
  /\ UNCHANGED perm
  /\ UNCHANGED <<renderVars, storeVars, scriptVars, authVars>>

\* The job's result is returned; the caller may send the next request.
JobReturn(j) ==
  /\ jobPc[j] \in {"denied", "renderFailed", "uploadFailed", "success"}
  /\ jobPc' = [jobPc EXCEPT ![j] = "idle"]
  /\ UNCHANGED <<completed, quotaVars>>
  /\ UNCHANGED <<renderVars, storeVars, scriptVars, authVars>>

NextJob ==
  \/ \E j \in Jobs : JobCheck(j)
  \/ \E j \in Jobs : JobRender(j)
  \/ \E j \in Jobs : JobUpload(j)
  \/ \E j \in Jobs : JobIncrement(j)
  \/ \E j \in Jobs : JobReturn(j)

\* =================================================================
\* Script normalizer: GeminiService.parseGeminiResponse, and the
\* entry-point scan ManimService.extractClassName
\* =================================================================

\* Most lines of a raw text.
MaxLines == 3

\* A text is the sequence of its lines (split("\n") and join("\n") convert
\* between the two); a line is its leading spaces and its trimmed body.  The
\* empty string is the text of one empty line.
Line(indent, body) == [indent |-> indent, body |-> body]
EmptyText == <<Line(0, "")>>

\* The strings of three and of six backtick characters, under names.
ThreeBackticks == "[3 backticks]"
SixBackticks == "[6 backticks]"

\* A line of 250 characters without a space.
LongBody == "xxxxxxxxxx...(250 characters)"

\* The lines raw texts are made of.  No body ends with "class", "time:",
\* "duration:", "take" or "takes", so that no pattern of this module matches
\* across a line break, and no line has trailing spaces.
Alphabet ==
  { Line(0, ""), Line(4, ""),
    Line(0, SixBackticks),
    Line(0, "from manim import *"),
    Line(0, "class Foo(Scene):"),
    Line(0, "class Foo"),
    Line(4, "def construct(self):"),
    Line(8, "self.play(Create(Circle()))"),
    Line(0, "self.add(c)"),
    Line(0, "# Draws a circle on the screen"),
    Line(0, "Duration: 15"),
    Line(0, "time: 500"),
    Line(0, "It takes 7 seconds to draw"),
    Line(0, LongBody) }

Texts == UNION {[1..n -> Alphabet] : n \in 1..MaxLines}

\* String.prototype.includes on one line, for the needles the code looks for:
\* the needles a body holds.
Needles(body) ==
  CASE body = SixBackticks -> {ThreeBackticks}
    [] body = "from manim import *" -> {"from manim import", "from manim", "import"}
    [] body \in {"class Foo(Scene):", "class GeneratedAnimation(Scene):"} ->
         {"class ", "Scene"}
    [] body = "class Foo" -> {"class "}
    [] body = "def construct(self):" -> {"def construct(self):", "def construct"}
    [] body \in {"self.play(Create(Circle()))", "self.play(Write(text))",
                 "self.play(Create(circle))",
                 "self.play(FadeOut(text), FadeOut(circle))"} -> {"self.play"}
    [] body = "self.add(c)" -> {"self.add"}
    [] OTHER -> {}

includes(line, needle) == needle \in Needles(line.body)

\* line.toLowerCase().includes(needle) for "duration" and "code".
lowerIncludes(line, needle) ==
  needle = "duration" /\ line.body = "Duration: 15"

\* text.includes(needle): no needle holds a line break.
textIncludes(text, needle) ==
  \E i \in 1..Len(text) : includes(text[i], needle)

\* line.trim().length
trimLength(line) ==
  CASE line.body = "" -> 0
    [] line.body = SixBackticks -> 6
    [] line.body = "from manim import *" -> 19
    [] line.body = "class Foo(Scene):" -> 17
    [] line.body = "class Foo" -> 9
    [] line.body = "def construct(self):" -> 20
    [] line.body = "self.play(Create(Circle()))" -> 27
    [] line.body = "self.add(c)" -> 11
    [] line.body = "# Draws a circle on the screen" -> 30
    [] line.body = "Duration: 15" -> 12
    [] line.body = "time: 500" -> 9
    [] line.body = "It takes 7 seconds to draw" -> 26
    [] line.body = LongBody -> 250

\* The characters /^[^\w]*/ takes from the front of a trimmed line.
leadingNonWord(line) ==
  IF line.body = "# Draws a circle on the screen" THEN 2 ELSE 0

\* String.prototype.trim on a text, lines 145: leading and trailing blank
\* lines and the spaces before the first body go.
trim(text) ==
  LET bodies == {i \in 1..Len(text) : text[i].body # ""} IN
  IF bodies = {} THEN EmptyText
  ELSE LET lo == CHOOSE i \in bodies : \A k \in bodies : i <= k
           hi == CHOOSE i \in bodies : \A k \in bodies : i >= k
           t == SubSeq(text, lo, hi)
       IN [t EXCEPT ![1] = Line(0, @.body)]

\* The predicate of lines.find, lines 148-154.
isDescription(line) ==
  /\ trimLength(line) > 20
  /\ ~includes(line, ThreeBackticks)
  /\ ~lowerIncludes(line, "duration")
  /\ ~lowerIncludes(line, "code")
  /\ line.body # ""

\* description.replace(/^[^\w]*/, "").substring(0, 200).trim(), lines
\* 213-216, of a line: what is left of its body, and how long that is.
cutDescription(line) ==
  LET left == trimLength(line) - leadingNonWord(line) IN
  [text |-> line.body, length |-> IF left > 200 THEN 200 ELSE left]

\* "Mathematical animation generated with Manim", line 155.
defaultDescription ==
  [text |-> "Mathematical animation generated with Manim", length |-> 43]

\* The number of matches of /``````/g in a text, lines 158-162: match[1] is
\* the second match of the pattern, not a capture group.
sixBackticks(text) ==
  Cardinality({i \in 1..Len(text) : text[i].body = SixBackticks})

\* The predicate of the filter of lines 170-178.
isPythonLine(line) ==
  \/ includes(line, "class ")
  \/ includes(line, "def construct")
  \/ includes(line, "from manim")
  \/ includes(line, "import manim")
  \/ includes(line, "self.play")
  \/ includes(line, "self.add")

\* generateFallbackCode, lines 288-303.
generateFallbackCode ==
  << Line(0, "from manim import *"),
     Line(0, ""),
     Line(0, "class GeneratedAnimation(Scene):"),
     Line(4, "def construct(self):"),
     Line(8, "# Basic animation fallback"),
     Line(8, "text = Text(\"Generated Animation\")"),
     Line(8, "self.play(Write(text))"),
     Line(8, "self.wait(2)"),
     Line(8, ""),
     Line(8, "circle = Circle(radius=1, color=BLUE)"),
     Line(8, "self.play(Create(circle))"),
     Line(8, "self.wait(1)"),
     Line(8, ""),
     Line(8, "self.play(FadeOut(text), FadeOut(circle))") >>

\* fixIndentation, lines 260-286.  inMethod is true at a line when an earlier
\* line took the "def construct(self):" branch; inClass decides nothing.
fixIndentation(code) ==
  LET isClass(l) == includes(l, "class ") /\ includes(l, "Scene")
      isDef(l) == ~isClass(l) /\ includes(l, "def construct(self):")
      inMethod(i) == \E k \in 1..(i - 1) : isDef(code[k])
      startsWithDef(l) == l.indent = 4 /\ l.body = "def construct(self):"
      fix(i) ==
        LET l == code[i] IN
        IF isClass(l) THEN l
        ELSE IF isDef(l) THEN Line(4, l.body)
        ELSE IF inMethod(i) /\ l.body # ""
        THEN IF ~(l.indent >= 8) /\ ~startsWithDef(l)
             THEN Line(8, l.body)
             ELSE l
        ELSE l
  IN [i \in 1..Len(code) |-> fix(i)]

\* cleanManimCode, lines 230-258.
cleanManimCode(code) ==
  LET withImport ==
        IF ~textIncludes(code, "from manim import")
        THEN <<Line(0, "from manim import *"), Line(0, "")>> \o code
        ELSE code
      keep(l) == ~includes(l, "from manim") /\ ~includes(l, "import")
                 /\ l.body # ""
      codeLines == SelectSeq(withImport, keep)
      indented == [i \in 1..Len(codeLines) |->
                     Line(codeLines[i].indent + 8, codeLines[i].body)]
      structured ==
        IF ~textIncludes(withImport, "class ")
           \/ ~textIncludes(withImport, "Scene")
        THEN << Line(0, "from manim import *"),
                Line(0, ""),
                Line(0, "class GeneratedAnimation(Scene):"),
                Line(4, "def construct(self):") >>
             \o (IF codeLines = <<>> THEN EmptyText ELSE indented)
        ELSE withImport
  IN fixIndentation(structured)

\* The three durationPatterns, lines 194-198, on one line: the number the
\* group captures, -1 when the pattern does not match the line.
capture(pattern, line) ==
  CASE pattern = 1 /\ line.body = "Duration: 15" -> 15
    [] pattern = 1 /\ line.body = "time: 500" -> 500
    [] pattern \in {2, 3} /\ line.body = "It takes 7 seconds to draw" -> 7
    [] OTHER -> -1

\* response.match(pattern)[1], lines 202-204: the capture of the first match
\* in the text, -1 when there is none.
firstCapture(pattern, text) ==
  LET hits == {i \in 1..Len(text) : capture(pattern, text[i]) # -1} IN
  IF hits = {} THEN -1
  ELSE capture(pattern, text[CHOOSE i \in hits : \A k \in hits : i <= k])

\* Mutant of reasonableBounds: the upper bound dropped.
reasonableBoundsBelow(duration) == duration > 0

\* duration > 0 && duration <= 300, line 205.
reasonableBounds(duration) == duration > 0 /\ duration <= 300

\* The loop over durationPatterns, lines 200-211, from pattern p on.
RECURSIVE estimateDuration(_, _)
estimateDuration(p, text) ==
  IF p > 3 THEN 10
  ELSE IF firstCapture(p, text) # -1 /\ reasonableBounds(firstCapture(p, text))
  THEN firstCapture(p, text)
  ELSE estimateDuration(p + 1, text)

\* parseGeminiResponse, lines 138-228.  Nothing in the try block throws for a
\* string, so the catch block (lines 219-226) is not entered.
parseGeminiResponse(resp) ==
  LET lines == trim(resp)
      found == {i \in 1..Len(lines) : isDescription(lines[i])}
      description ==
        IF found = {} THEN defaultDescription
        ELSE cutDescription(lines[CHOOSE i \in found : \A k \in found : i <= k])
      pythonLines == SelectSeq(resp, isPythonLine)
      code == IF sixBackticks(resp) >= 2 THEN <<Line(0, SixBackticks)>>
              ELSE IF pythonLines # <<>> THEN pythonLines
              ELSE generateFallbackCode
      cleaned == cleanManimCode(code)
  IN [kind |-> "result",
      code |-> IF cleaned = EmptyText THEN generateFallbackCode ELSE cleaned,
      description |-> description,
      estimatedDuration |-> estimateDuration(1, resp)]

\* What /class\s+(\w+)\s*$$/ matches on a line that ends the input: the
\* pattern has no m flag, so "$" is the end of the whole content.
classAtEnd(line) ==
  IF line.body = "class Foo"
  THEN [matched |-> TRUE, whole |-> "class Foo", group |-> "Foo"]
  ELSE [matched |-> FALSE]

\* extractClassName, lines 128-136: readFileSync may throw (the catch block
\* returns the fallback); the pattern matches when the last line with a body
\* ends with "class <name>"; on a match the match array itself is returned,
\* the "[1]" stands after the return statement.
extractClassName(content, readOk) ==
  LET bodies == {i \in 1..Len(content) : content[i].body # ""}
      last == CHOOSE i \in bodies : \A k \in bodies : i >= k
      classMatch == IF bodies = {} THEN [matched |-> FALSE]
                    ELSE classAtEnd(content[last])
  IN IF readOk /\ classMatch.matched
     THEN [kind |-> "array", value |-> classMatch.whole,
           group |-> classMatch.group]
     ELSE [kind |-> "string", value |-> "GeneratedAnimation"]

InitScriptIdle ==
  /\ raw = EmptyText
  /\ parsed = [kind |-> "none"]
  /\ className = [kind |-> "none"]

InitScript ==
  /\ raw \in Texts
  /\ parsed = [kind |-> "none"]
  /\ className = [kind |-> "none"]

\* A call of parseGeminiResponse on the raw text.
ParseGeminiResponse ==
  /\ parsed.kind = "none"
  /\ parsed' = parseGeminiResponse(raw)
  /\ UNCHANGED <<raw, className>>
  /\ UNCHANGED <<renderVars, quotaVars, storeVars, jobVars, authVars>>

\* runManim, lines 81-94: extractClassName on the file generateVideo wrote,
\* which holds request.code: the normalized script, or any text a caller
\* sends; then spawn with the result as the second argument.
ExtractClassName ==
  /\ className.kind = "none"
  /\ \E readOk \in BOOLEAN :
       \E content \in {raw} \cup
                      (IF parsed.kind = "result" THEN {parsed.code} ELSE {}) :
         className' = [kind |-> "called", content |-> content,
                       readOk |-> readOk,
                       result |-> extractClassName(content, readOk)]
  /\ UNCHANGED <<raw, parsed>>
  /\ UNCHANGED <<renderVars, quotaVars, storeVars, jobVars, authVars>>

NextScript ==
  \/ ParseGeminiResponse
  \/ ExtractClassName

\* =================================================================
\* Authentication: AuthService.signin, UserModel
\* =================================================================

\* Most signins of one user that reach updateLastLogin.
MaxLogins == 2

Usernames == {"alice", "bob"}
Passwords == {"p1", "p2"}

\* bcrypt.hash(password, saltRounds), user.model.ts lines 84-87, and
\* bcrypt.compare(password, hash), line 139.
hash(password) == [alg |-> "bcrypt", of |-> password]
compare(password, hashed) == hashed = hash(password)

\* No document for a username.
NoUser == [exists |-> FALSE]

\* verifyPassword, lines 135-140: an async method, so a call returns a
\* promise of the boolean.
verifyPassword(user, password) ==
  [type |-> "Promise", value |-> compare(password, user.password)]

\* What "!x" tests: a promise is an object, and every object is truthy.
truthy(x) == IF x.type = "Promise" THEN TRUE ELSE x.value

\* The users collection is empty.
InitAuthIdle ==
  /\ users = [u \in Usernames |-> NoUser]
  /\ session = [kind |-> "none"]

\* signup, part_000 lines 23-45, through UserModel.create, lines 77-119: a
\* taken username throws; otherwise the document is inserted with the hash.
Signup(username, password) ==
  /\ users' = IF users[username].exists THEN users
              ELSE [users EXCEPT ![username] =
                      [exists |-> TRUE, password |-> hash(password),
                       lastLoginAt |-> 0]]
  /\ UNCHANGED session
  /\ UNCHANGED <<renderVars, quotaVars, storeVars, jobVars, scriptVars>>

\* signin, part_000 lines 47-79: findByUsername; "Invalid credentials" when
\* there is no user; verifyPassword is called without await, and its promise
\* is what "!isPasswordValid" tests; then updateLastLogin (user.model.ts
\* lines 142-152) and jwt.sign.
Signin(username, password) ==
  LET user == users[username] IN
  /\ user.exists => user.lastLoginAt < MaxLogins
  /\ IF ~user.exists
     THEN /\ session' = [kind |-> "called", username |-> username,
                         existed |-> FALSE, verifies |-> FALSE,
                         result |-> "throw",
                         message |-> "Invalid credentials",
                         updated |-> FALSE]
          /\ UNCHANGED users
     ELSE LET isPasswordValid == verifyPassword(user, password) IN
          IF ~truthy(isPasswordValid)
          THEN /\ session' = [kind |-> "called", username |-> username,
                              existed |-> TRUE,
                              verifies |-> compare(password, user.password),
                              result |-> "throw",
                              message |-> "Password is not valid!",
                              updated |-> FALSE]
               /\ UNCHANGED users
          ELSE /\ users' = [users EXCEPT ![username].lastLoginAt = @ + 1]
               /\ session' = [kind |-> "called", username |-> username,
                              existed |-> TRUE,
                              verifies |-> compare(password, user.password),
                              result |-> "token",
                              message |-> "",
                              updated |-> TRUE]
  /\ UNCHANGED <<renderVars, quotaVars, storeVars, jobVars, scriptVars>>

NextAuth ==
  \/ \E u \in Usernames, p \in Passwords : Signup(u, p)
  \/ \E u \in Usernames, p \in Passwords : Signin(u, p)

\* =================================================================
\* Specifications
\* =================================================================

InitRestIdle == InitJobIdle /\ InitScriptIdle /\ InitAuthIdle

Init == InitRender /\ InitQuotaIdle /\ InitStoreIdle /\ InitRestIdle
Next == NextRender
Spec == Init /\ [][Next]_vars

InitOfQuota == InitRender /\ InitQuota /\ InitStoreIdle /\ InitRestIdle
SpecQuota == InitOfQuota /\ [][NextQuota]_vars

InitOfStore == InitRender /\ InitQuotaIdle /\ InitStore /\ InitRestIdle
SpecStore == InitOfStore /\ [][NextStore]_vars

InitOfJob ==
  InitRender /\ InitStoreIdle /\ InitJob /\ InitScriptIdle /\ InitAuthIdle
SpecJob == InitOfJob /\ [][NextJob]_vars

InitOfScript ==
  InitRender /\ InitQuotaIdle /\ InitStoreIdle /\ InitJobIdle /\ InitScript
  /\ InitAuthIdle
SpecScript == InitOfScript /\ [][NextScript]_vars

InitOfAuth ==
  InitRender /\ InitQuotaIdle /\ InitStoreIdle /\ InitJobIdle
  /\ InitScriptIdle /\ InitAuthIdle
SpecAuth == InitOfAuth /\ [][NextAuth]_vars

\* =================================================================
\* Properties of the render executor (checked under Spec)
\* =================================================================

\* The invocation's writeFile succeeded.
Wrote(j) == pc[j] \in {"wrote", "unlink", "unlinked", "done"}
            /\ response[j] # "failed:write"

\* The script job j wrote is still in the tmp directory.
FilePresent(j) == Wrote(j) /\ fs[pythonFilePath(ts[j], vid[j])] = j

\* C1 (as stated): an invocation that wrote its temporary source file has
\* deleted it exactly once, and the file is gone, when the invocation has
\* returned, whatever the renderer did.
C1_DeletedOnReturn ==
  \A j \in Jobs :
    (pc[j] = "done" /\ Wrote(j)) => (unlinkCalls[j] = 1 /\ ~FilePresent(j))

\* C1 (amended): an invocation that wrote its temporary source file has
\* called unlink on its path exactly once by the time it returns, whatever the
\* state of the renderer, and unless that call failed with an error other than
\* not-found the script it wrote is no longer in the tmp directory.
C1_UnlinkOnceAndGoneUnlessUnlinkFails ==
  \A j \in Jobs :
    (pc[j] \in {"unlinked", "done"} /\ Wrote(j)) =>
       /\ unlinkCalls[j] = 1
       /\ (unlinkRes[j] \in {"ok", "ENOENT"} => ~FilePresent(j))

\* An invocation has returned after a successful unlink, and its renderer has
\* ended in a failure (non-zero exit, spawn failure or timeout).
C1_Witness ==
  \E j \in Jobs :
    /\ pc[j] = "done" /\ Wrote(j) /\ unlinkRes[j] = "ok"
    /\ promise[j] \in Rejections

\* C2: the returned result reflects the renderer's exit status: 'completed'
\* only after exit code 0, and a rejection of the render (RenderFailed,
\* RenderStartFailed, RenderTimeout) is what a returned invocation reports.
C2_ResultReflectsExit ==
  \A j \in Jobs :
    /\ response[j] = "completed" => promise[j] = "resolved"
    /\ (pc[j] = "done" /\ promise[j] \in Rejections) => response[j] = promise[j]

\* C3: one terminal outcome per invocation: a job for which a response has
\* been returned never also raises a render rejection (a timeout, or any
\* other second outcome).
C3_OneOutcome ==
  \A j \in Jobs : ~(response[j] # "none" /\ unhandled[j] # "none")

\* C4: when the timer expires before the child has exited, the outcome is
\* RenderTimeout, the invocation reports it, and the child is not running in
\* any state in which that outcome has been reported.
C4_TimeoutKills ==
  \A j \in Jobs :
    promise[j] = "RenderTimeout" =>
      /\ ~Running(j)
      /\ pc[j] = "done" => response[j] = "RenderTimeout"

\* C5: no two invocations share a temporary source file path.
C5_UniquePaths ==
  \A i, j \in Jobs :
    (i # j /\ pc[i] # "idle" /\ pc[j] # "idle") =>
      pythonFilePath(ts[i], vid[i]) # pythonFilePath(ts[j], vid[j])

\* C6: a failed deletion of the temporary source file does not replace the
\* outcome of the render: after a render that exited with code 0 the
\* invocation still returns 'completed'.
C6_CleanupFailureNotMasking ==
  \A j \in Jobs :
    (pc[j] = "done" /\ unlinkRes[j] \in {"ENOENT", "EPERM"}
       /\ promise[j] = "resolved") => response[j] = "completed"
\* =================================================================
\* Properties of the quota gate (checked under SpecQuota)
\* =================================================================

\* Rank of a tier in the order basic < intermediate < advanced.
TierRank(t) == CASE t = "basic" -> 1 [] t = "intermediate" -> 2
                 [] t = "advanced" -> 3

\* The last call found the user, with an active subscription.
CalledActive == /\ perm.kind = "called"
                /\ perm.call.found
                /\ perm.call.subscription.isActive

\* The last call asked for one of the three tiers, one the plan permits.
TierPermitted ==
  /\ perm.call.complexity \in Plans
  /\ TierRank(perm.call.complexity) <=
       TierRank(PLAN_LIMITS(perm.call.subscription.plan).maxComplexity)

\* C7: for an active account and a permitted tier the check denies exactly
\* when videosGenerated > maxVideosPerMonth; a denial reports 0 videos left,
\* an allowance reports maxVideosPerMonth - videosGenerated, which is >= 0.
C7_QuotaBoundary ==
  (CalledActive /\ TierPermitted) =>
    LET u == perm.call.subscription
        r == perm.result
    IN /\ r.kind = "return"
       /\ r.canGenerate <=> ~(u.videosGenerated > u.maxVideosPerMonth)
       /\ ~r.canGenerate => r.videosLeft = 0
       /\ r.canGenerate => /\ r.videosLeft = u.maxVideosPerMonth - u.videosGenerated
                            /\ r.videosLeft >= 0

\* An account exactly at its limit was allowed, with 0 videos left.
C7_Witness ==
  /\ CalledActive /\ TierPermitted
  /\ perm.call.subscription.videosGenerated = perm.call.subscription.maxVideosPerMonth
  /\ perm.result.canGenerate
  /\ perm.result.videosLeft = 0

\* C8: for an inactive subscription the check returns a denial (allowed =
\* false, reason 'subscription inactive') for every tier and usage count; it
\* raises no error.
C8_InactiveIsDenial ==
  (perm.kind = "called" /\ perm.call.found /\ ~perm.call.subscription.isActive) =>
    /\ perm.result.kind = "return"
    /\ ~perm.result.canGenerate

\* C9: for an active account within its limit and a request for one of the
\* three tiers, the check allows exactly when the tier does not exceed the
\* plan's maximum; a denial's reason names the requested tier and the plan's.
C9_TierOrder ==
  (/\ CalledActive
   /\ perm.call.complexity \in Plans
   /\ perm.call.subscription.videosGenerated
        <= perm.call.subscription.maxVideosPerMonth) =>
    LET u == perm.call.subscription
        c == perm.call.complexity
        r == perm.result
    IN /\ r.kind = "return"
       /\ r.canGenerate <=>
            TierRank(c) <= TierRank(PLAN_LIMITS(u.plan).maxComplexity)
       /\ ~r.canGenerate => (r.reason[2] = c /\ r.reason[4] = u.plan)
       /\ c = "basic" => r.canGenerate

\* A request for advanced on a basic plan was denied.
C9_Witness ==
  /\ CalledActive
  /\ perm.call.complexity = "advanced"
  /\ perm.call.subscription.plan = "basic"
  /\ perm.call.subscription.videosGenerated
       <= perm.call.subscription.maxVideosPerMonth
  /\ ~perm.result.canGenerate
  /\ perm.result.reason[2] = "advanced" /\ perm.result.reason[4] = "basic"

\* =================================================================
\* Properties of the artifact store (checked under SpecStore)
\* =================================================================

\* C10: no upload is attempted before initializeBucket has run to completion
\* and the bucket exists and carries the videos/ read policy; and whenever an
\* initialization has completed, a repeated one included, the bucket exists
\* and carries that policy.
C10_BucketReadyBeforeUpload ==
  /\ (lastUpload.kind = "called" /\ lastUpload.attempted) =>
       /\ lastUpload.initAtPut = "done"
       /\ lastUpload.bucketAtPut.exists
       /\ lastUpload.bucketAtPut.policy
  /\ initPc = "done" => (bucket.exists /\ bucket.policy)

\* C11: getVideoUrl never raises: whenever signing the URL fails, the call
\* completes normally and returns the empty string (and the store is left as
\* it was: the action changes no store variable).
C11_UrlNeverRaises ==
  (lastCall.op = "getVideoUrl" /\ lastCall.sign # "url") =>
    /\ lastCall.result.kind = "return"
    /\ lastCall.result.url = <<>>

\* C12: for a pair of ids for which the bucket holds no uploaded object
\* (never uploaded, or deleted), getVideoUrl returns the empty string without
\* raising, and getVideoStream returns a failure without raising.
C12_AbsentIsUnavailable ==
  (lastCall.op \in {"getVideoUrl", "getVideoStream"}
     /\ ~lastCall.present) =>
    /\ lastCall.result.kind = "return"
    /\ lastCall.op = "getVideoUrl" => lastCall.result.url = <<>>
    /\ lastCall.op = "getVideoStream" => ~lastCall.result.success

\* C17: the operations address the object by the same key for the same pair
\* of ids.  A lookup (getVideoMetadata, getVideoStream) that succeeds returns
\* the object uploaded for that very pair; it succeeds when the bucket holds
\* one and the store answers, and reports a failure when the bucket holds
\* none (never uploaded, or deleted).  A successful delete removes the object
\* of that pair and no other.
C17_SameKeySamePair ==
  /\ lastCall.op \in {"getVideoMetadata", "getVideoStream"} =>
       /\ lastCall.result.success =>
            /\ lastCall.result.metadata.userId = lastCall.userId
            /\ lastCall.result.metadata.videoId = lastCall.videoId
       /\ lastCall.result.success <=>
            (lastCall.present /\ lastCall.storeOk)
  /\ (lastCall.op = "deleteVideo" /\ lastCall.result.success) =>
       /\ ~lastCall.presentAfter
       /\ lastCall.othersKept
  /\ \A o \in objects : o.key = objectName(o.userId, o.videoId)
  /\ \A o \in objects : \A q \in objects : o.key = q.key => o = q

\* An object uploaded for one pair has been looked up with success while the
\* bucket also held the object of another pair.
C17_Witness ==
  /\ lastCall.op = "getVideoMetadata"
  /\ lastCall.result.success
  /\ lastCall.others

\* C16: the renderer and the timer race and the loser is cancelled: once the
\* process has exited (or failed to start), the timer is disarmed, so that it
\* can neither send a kill signal nor raise a timeout afterwards.
C16_TimerDisarmedOnExit ==
  \A j \in Jobs : proc[j] \in {"closed", "spawnError"} => timer[j] # "armed"

\* C18: the temporary source file is removed only after the renderer has
\* reached a terminal state: in no state is the renderer of a job running
\* while the file the job wrote is gone.
C18_NoRemovalWhileRunning ==
  \A j \in Jobs : ~(Running(j) /\ Wrote(j) /\ ~FilePresent(j))

\* =================================================================
\* Properties of the job sequence (checked under SpecJob)
\* =================================================================

\* C13: each job that completes successfully raises the account's
\* videosGenerated by exactly one (from 0 to 1 for the first), and a job that
\* fails at the quota gate, at render or at upload leaves it as it was: the
\* counter is the number of jobs that reached their usage increment.
C13_CountsSuccessfulJobs ==
  sub.videosGenerated = completed

C14_NormalizerTotal ==
  parsed.kind # "none" =>
    /\ parsed.kind = "result"
    /\ parsed.code # EmptyText
    /\ Len(parsed.code) > 0
    /\ textIncludes(parsed.code, "from manim import")
    /\ parsed.description.length <= 200
    /\ parsed.estimatedDuration \in 1..300
    /\ (\A p \in 1..3 : firstCapture(p, raw) \notin 1..300)
         => parsed.estimatedDuration = 10

\* A text whose only duration is out of range has been normalized to the
\* default duration, with a description cut to 200 characters.
C14_Witness ==
  /\ parsed.kind = "result"
  /\ firstCapture(1, raw) = 500
  /\ parsed.estimatedDuration = 10
  /\ parsed.description.length = 200

\* The class a line declares, "" when it declares none.
DeclaredClass(line) ==
  CASE line.body \in {"class Foo(Scene):", "class Foo"} -> "Foo"
    [] line.body = "class GeneratedAnimation(Scene):" -> "GeneratedAnimation"
    [] OTHER -> ""

\* The entry point the script of a content declares: the class of its first
\* class declaration, the fallback when it has none.
EntryPoint(content) ==
  LET decls == {i \in 1..Len(content) : DeclaredClass(content[i]) # ""} IN
  IF decls = {} THEN "GeneratedAnimation"
  ELSE DeclaredClass(content[CHOOSE i \in decls : \A k \in decls : i <= k])

\* C15: the entry-point identifier handed to the renderer is the name of the
\* class the script declares ("class Foo(Scene):" gives "Foo"), and
\* "GeneratedAnimation" when it declares none; the scan always returns.
C15_EntryPointIsDeclaredClass ==
  (className.kind = "called" /\ className.readOk) =>
    /\ className.result.kind = "string"
    /\ className.result.value = EntryPoint(className.content)

\* =================================================================
\* Properties of authentication (checked under SpecAuth)
\* =================================================================

\* C20: signin issues a token, and updates the last-login time, only for an
\* existing user whose stored hash the password verifies against; otherwise
\* it throws, returns no token and updates nothing.
C20_TokenOnlyForVerifiedPassword ==
  session.kind = "called" =>
    IF session.existed /\ session.verifies
    THEN session.result = "token"
    ELSE session.result = "throw" /\ ~session.updated


====
